---------------------------- MODULE Spec2Model ----------------------------
(***************************************************************************)
(* A model of server.py: the scan orchestrator (run_scan), the classifier  *)
(* worker (scan_worker), the like toggle, the path setting and the stream  *)
(* engine (get_stream / fetch_ids / build_query).                          *)
(*                                                                         *)
(* File names are kept as the strings the program sees; the regular        *)
(* expressions, os.path functions and md5 are modelled by their results    *)
(* on the file names of the universe below.                                *)
(***************************************************************************)
EXTENDS Integers, Sequences, FiniteSets, Bags, TLC

(***************************************************************************)
(* Bounds of the model.                                                    *)
(***************************************************************************)
\* scan threads that can exist at once (the startup thread and the threads
\* set_path spawns)
MaxThreads == 2
\* flush threshold of run_scan (BATCH = 200 in the source), scaled to the
\* size of the directory tree below
BATCH == 2
\* file modification times of the records a stream request reads: 1..MaxTs
MaxTs == 3
\* page sizes of the stream requests: 1..MaxLimit
MaxLimit == 4
\* offsets of the stream requests: 0..MaxOffset
MaxOffset == 1

(***************************************************************************)
(* The directory tree.                                                     *)
(***************************************************************************)
NoId == ""
NoDir == ""

R1 == "/r"
R2 == "/r/bk"
Roots == {R1, R2}

DirA == "/r/artist_123"
DirB == "/r/bk/artist_123"
DirM == "/r/misc"
DirH == "/r/.cache"
AllDirs == <<DirA, DirB, DirH, DirM>>

T1 == "20230101123456789"
T2 == "20240202123456789"
T3 == "20250303123456789"

\* os.path.join(root, f)
Path(root, f) == <<root, f>>

\* every file that can exist, in the order os.walk lists it
Universe ==
    << Path(DirA, "111111_p2.mp4"),
       Path(DirA, "111111_p0.jpg"),
       Path(DirA, "pic_20230101123456789_1.jpg"),
       Path(DirA, "20230101123456789.json"),
       Path(DirB, "111111_p1.jpg"),
       Path(DirH, "cover.jpg"),
       Path(DirM, ".thumb.jpg"),
       Path(DirM, "x_20240202123456789.mp4"),
       Path(DirM, "20240202123456789.json"),
       Path(DirM, "20250303123456789.json"),
       Path(DirM, "notes.txt") >>

\* JSON sidecars that appear in the tree after the program has started
Addable ==
    { Path(DirA, "20230101123456789.json"),
      Path(DirM, "20240202123456789.json") }

Range(s) == {s[i] : i \in DOMAIN s}

InitialTree == Range(Universe) \ Addable

\* the directories os.walk(target_dir) visits
DirsUnder(target_dir) ==
    SelectSeq(AllDirs, LAMBDA d :
        \/ target_dir = R1
        \/ target_dir = R2 /\ d = DirB)

\* any(p.startswith('.') and len(p) > 1 for p in root.split(os.sep))
HiddenDir(d) == d = DirH

\* os.path.basename(root)
Basename(d) ==
    CASE d = DirA -> "artist_123"
      [] d = DirB -> "artist_123"
      [] d = DirM -> "misc"
      [] d = DirH -> ".cache"

\* re.search(r'[\-_](\d{3,})$', folder_name): group 1, NoId when no match
PixivFolderMatch(folder_name) ==
    IF folder_name = "artist_123" THEN "123" ELSE NoId

\* re.match(r'^(.*?)[\s\-_]*(\d+)$', folder_name): the stripped group 1,
\* the folder name when there is no match or group 1 is empty
AuthorName(folder_name) ==
    IF folder_name = "artist_123" THEN "artist" ELSE folder_name

\* f.startswith('.')
HiddenFile(f) == f = ".thumb.jpg"

\* low.endswith('.json')
IsJson(f) ==
    f \in {"20230101123456789.json", "20240202123456789.json",
           "20250303123456789.json"}

\* mf.lower().endswith(('.mp4', '.webm'))
IsVideo(f) == f \in {"111111_p2.mp4", "x_20240202123456789.mp4"}

\* low.endswith(('.jpg', '.jpeg', '.png', '.gif', '.mp4', '.webm'))
IsMedia(f) ==
    \/ IsVideo(f)
    \/ f \in {"111111_p0.jpg", "111111_p1.jpg", "pic_20230101123456789_1.jpg",
              "cover.jpg", ".thumb.jpg"}

MediaType(f) == IF IsVideo(f) THEN "video" ELSE "image"

\* tweet_id_pattern = r'_(\d{14,})(_|\.)': group 1 of the first match
TweetIdOf(f) ==
    CASE f = "pic_20230101123456789_1.jpg" -> T1
      [] f = "x_20240202123456789.mp4" -> T2
      [] OTHER -> NoId

\* re.findall(r'(\d{14,})', jf)[0]
JsonTid(jf) ==
    CASE jf = "20230101123456789.json" -> T1
      [] jf = "20240202123456789.json" -> T2
      [] jf = "20250303123456789.json" -> T3
      [] OTHER -> NoId

\* pixiv_file_pattern = r'^(\d{5,})(?:_p(\d+))?': group 1
PixivWid(f) ==
    IF f \in {"111111_p0.jpg", "111111_p1.jpg", "111111_p2.mp4"}
    THEN "111111" ELSE NoId

\* group 2 of pixiv_file_pattern as an integer, 0 when absent
PixivPage(f) ==
    CASE f = "111111_p0.jpg" -> 0
      [] f = "111111_p1.jpg" -> 1
      [] f = "111111_p2.mp4" -> 2
      [] OTHER -> 0

\* identifiers are tuples, so that the derived ones stay injective
\* f"folder_{pixiv_author_id}_{hashlib.md5(mf.encode()).hexdigest()[:8]}"
SyntheticWid(author_id, mf) == <<"folder", author_id, mf>>
\* hashlib.md5(full_path.encode()).hexdigest()
FileId(full_path) == <<"md5", full_path[1], full_path[2]>>

\* int(os.path.getmtime(full_path) * 1000)
Mtime(p) ==
    CASE p = Path(DirA, "111111_p0.jpg") -> 1
      [] p = Path(DirA, "111111_p2.mp4") -> 3
      [] p = Path(DirB, "111111_p1.jpg") -> 2
      [] p = Path(DirA, "pic_20230101123456789_1.jpg") -> 4
      [] p = Path(DirA, "20230101123456789.json") -> 5
      [] p = Path(DirM, "x_20240202123456789.mp4") -> 3
      [] p = Path(DirM, "20240202123456789.json") -> 6
      [] OTHER -> 7

\* json.load(f): ok = FALSE when the file is not valid JSON; a missing key
\* reads as 0 or "" (data.get gives None, which `or` treats alike)
JsonData(p) ==
    CASE p = Path(DirA, "20230101123456789.json") ->
            [ok |-> TRUE, timestamp |-> <<TRUE, 1700>>, saved_at |-> <<TRUE, 0>>,
             user_name |-> "alice", user |-> "", text |-> "hello",
             url |-> "https://x.com/alice/status/1", avatar_url |-> "",
             user_icon |-> "icon.png"]
      [] p = Path(DirM, "20240202123456789.json") ->
            [ok |-> TRUE, timestamp |-> <<TRUE, 0>>, saved_at |-> <<FALSE, 0>>,
             user_name |-> "", user |-> "", text |-> "",
             url |-> "", avatar_url |-> "", user_icon |-> ""]
      [] OTHER ->
            [ok |-> FALSE, timestamp |-> <<TRUE, 0>>, saved_at |-> <<TRUE, 0>>,
             user_name |-> "", user |-> "", text |-> "",
             url |-> "", avatar_url |-> "", user_icon |-> ""]


(***************************************************************************)
(* scan_worker: the classifier of one directory.                           *)
(***************************************************************************)
\* Python's `a or b` on strings and on the raw timestamp values
OrStr(a, b) == IF a = "" THEN b ELSE a
OrRaw(a, b) == IF a = <<TRUE, 0>> THEN b ELSE a
\* try: ts = int(raw_ts) / except: ts = 0
ToInt(raw) == IF raw[1] THEN raw[2] ELSE 0

\* lines 152-170: the Post row of sidecar jf and its media rows
TweetEntry(root, jf, media_files) ==
    LET tid == JsonTid(jf)
        full_path == Path(root, jf)
        data == JsonData(full_path)
        user == OrStr(OrStr(data.user_name, data.user), "Unknown")
        mm == SelectSeq(media_files, LAMBDA f : TweetIdOf(f) = tid)
    IN  [row |-> [id |-> <<tid>>,
                  timestamp |-> ToInt(OrRaw(OrRaw(data.timestamp, data.saved_at), <<TRUE, 0>>)),
                  user_name |-> user,
                  text |-> data.text,
                  json_path |-> full_path,
                  tweet_url |-> IF data.url = ""
                                THEN <<"https://twitter.com/", user, "/status/", tid>>
                                ELSE <<data.url>>,
                  avatar_url |-> OrStr(data.avatar_url, data.user_icon),
                  folder_name |-> Basename(root),
                  file_mtime |-> Mtime(full_path),
                  is_liked |-> 0],
         media |-> [i \in DOMAIN mm |->
                      [tweet_id |-> <<tid>>, file_path |-> Path(root, mm[i]),
                       media_type |-> MediaType(mm[i])]]]

\* lines 136-171: the sidecars that yield a new Post, in listing order
NewTweetJsons(root, json_files, existing_tweets) ==
    SelectSeq(json_files, LAMBDA jf :
        /\ JsonTid(jf) # NoId
        /\ <<JsonTid(jf)>> \notin existing_tweets
        /\ JsonData(Path(root, jf)).ok)

TweetUsedMediaNewOnly(root, json_files, media_files, existing_tweets) ==
    {m \in Range(media_files) :
        \E jf \in Range(json_files) :
            /\ JsonTid(jf) # NoId
            /\ TweetIdOf(m) = JsonTid(jf)
            /\ <<JsonTid(jf)>> \notin existing_tweets
            /\ JsonData(Path(root, jf)).ok}

\* lines 141-143 and 164-165: the media files the Post step consumes
TweetUsedMedia(root, json_files, media_files, existing_tweets) ==
    {m \in Range(media_files) :
        \E jf \in Range(json_files) :
            /\ JsonTid(jf) # NoId
            /\ TweetIdOf(m) = JsonTid(jf)
            /\ \/ <<JsonTid(jf)>> \in existing_tweets
               \/ JsonData(Path(root, jf)).ok}

KnownWorkNever(wid, existing_pixiv) == FALSE

\* line 191: if wid in existing_pixiv
KnownWork(wid, existing_pixiv) == wid \in existing_pixiv

\* index of work wid in the bucket list, 0 when it has no bucket yet
BucketIndex(buf, wid) ==
    IF \E i \in DOMAIN buf : buf[i].wid = wid
    THEN CHOOSE i \in DOMAIN buf : buf[i].wid = wid
    ELSE 0

\* lines 183-189: the work id and raw page number of a media file
ResolveWid(author_id, mf) ==
    IF PixivWid(mf) # NoId THEN <<PixivWid(mf)>> ELSE SyntheticWid(author_id, mf)

\* lines 178-209: the loop over media_files from position i, with the state
\* st = [used, buf]; buf keeps the dict pixiv_buffer in insertion order
RECURSIVE PixivLoop(_, _, _, _, _)
PixivLoop(root, media_files, existing_pixiv, i, st) ==
    IF i > Len(media_files) THEN st
    ELSE
      LET mf == media_files[i]
          folder_name == Basename(root)
          wid == ResolveWid(PixivFolderMatch(folder_name), mf)
          full_path == Path(root, mf)
          mtime == Mtime(full_path)
          k == BucketIndex(st.buf, wid)
          page == <<PixivPage(mf), full_path, MediaType(mf)>>
          fresh == [wid |-> wid, title |-> mf, author |-> AuthorName(folder_name),
                    timestamp |-> mtime, folder |-> folder_name, pages |-> <<page>>]
          next ==
            CASE mf \in st.used -> st
              [] mf \notin st.used /\ KnownWork(wid, existing_pixiv) ->
                    [st EXCEPT !.used = @ \cup {mf}]
              [] mf \notin st.used /\ ~KnownWork(wid, existing_pixiv) /\ k = 0 ->
                    [used |-> st.used \cup {mf}, buf |-> Append(st.buf, fresh)]
              [] OTHER ->
                    [used |-> st.used \cup {mf},
                     buf |-> [st.buf EXCEPT
                                ![k].timestamp = IF mtime > @ THEN mtime ELSE @,
                                ![k].pages = Append(@, page)]]
      IN  PixivLoop(root, media_files, existing_pixiv, i + 1, next)

OtherBufferAll(root, media_files, used_media, existing_others) ==
    LET rest == SelectSeq(media_files, LAMBDA mf :
                    FileId(Path(root, mf)) \notin existing_others)
    IN  [i \in DOMAIN rest |->
            [id |-> FileId(Path(root, rest[i])), filename |-> rest[i],
             folder_name |-> Basename(root), file_path |-> Path(root, rest[i]),
             media_type |-> MediaType(rest[i]), file_mtime |-> Mtime(Path(root, rest[i])),
             is_liked |-> 0]]

\* lines 212-223: the UnclassifiedMedia candidates
OtherBuffer(root, media_files, used_media, existing_others) ==
    LET rest == SelectSeq(media_files, LAMBDA mf :
                    /\ mf \notin used_media
                    /\ FileId(Path(root, mf)) \notin existing_others)
    IN  [i \in DOMAIN rest |->
            [id |-> FileId(Path(root, rest[i])), filename |-> rest[i],
             folder_name |-> Basename(root), file_path |-> Path(root, rest[i]),
             media_type |-> MediaType(rest[i]), file_mtime |-> Mtime(Path(root, rest[i])),
             is_liked |-> 0]]

\* scan_worker((root, files, existing_pixiv, existing_tweets, existing_others))
ScanWorker(root, files0, existing_pixiv, existing_tweets, existing_others) ==
    LET files == SelectSeq(files0, LAMBDA f : ~HiddenFile(f))
        json_files == SelectSeq(files, IsJson)
        media_files == SelectSeq(files, LAMBDA f : ~IsJson(f) /\ IsMedia(f))
        tj == NewTweetJsons(root, json_files, existing_tweets)
        tweet_buffer == [i \in DOMAIN tj |-> TweetEntry(root, tj[i], media_files)]
        used1 == TweetUsedMedia(root, json_files, media_files, existing_tweets)
        st == IF PixivFolderMatch(Basename(root)) # NoId
              THEN PixivLoop(root, media_files, existing_pixiv, 1,
                             [used |-> used1, buf |-> <<>>])
              ELSE [used |-> used1, buf |-> <<>>]
    IN  [t_buf |-> tweet_buffer,
         p_buf |-> st.buf,
         o_buf |-> OtherBuffer(root, media_files, st.used, existing_others)]

(***************************************************************************)
(* The state.                                                              *)
(***************************************************************************)
VARIABLES
    pixiv_works,      \* table pixiv_works: a set of rows, id is the primary key
    pixiv_pages,      \* table pixiv_pages: a bag of rows (no key)
    tweets,           \* table tweets: a set of rows, id is the primary key
    tweet_media,      \* table tweet_media: a bag of rows (no key)
    other_works,      \* table other_works: a set of rows, id is the primary key
    tree,             \* the files that exist on disk
    target_dir,       \* current_config["target_dir"]
    is_scanning,      \* the global scan flag
    scan_status_msg,  \* the kind of the global status message
    th,               \* the run_scan threads: their position and locals
    lastPass,         \* history: <<root, row counts>> of the last clean pass
    req,              \* the last stream request of the client
    resp,             \* the page get_stream returned for it
    prev,             \* the client's request and page before that one
    call,             \* the arguments of the scan_worker call under study
    ret,              \* what that call returned
    got               \* history: the records the paging client has received

store == <<pixiv_works, pixiv_pages, tweets, tweet_media, other_works>>
vars == <<pixiv_works, pixiv_pages, tweets, tweet_media, other_works, tree,
          target_dir, is_scanning, scan_status_msg, th, lastPass, req, resp, prev, call, ret, got>>

\* the thread slots of the configuration at hand
Threads == DOMAIN th

\* a thread slot in which no run_scan call is active; walked and failed are
\* history: the tasks of the pass and those whose worker raised
IdleThread ==
    [pc |-> "none", target |-> NoDir,
     ex_pixiv |-> {}, ex_tweets |-> {}, ex_others |-> {},
     tasks |-> {},
     b_pix_w |-> <<>>, b_pix_p |-> <<>>, b_tweets |-> <<>>, b_tweet_m |-> <<>>,
     b_others |-> <<>>,
     new_cnt |-> [t |-> 0, p |-> 0, o |-> 0],
     ok |-> FALSE, clean |-> FALSE, base |-> <<>>,
     walked |-> {}, failed |-> {}]

\* threading.Thread(target=run_scan, args=(target,)).start()
Spawned(target) == [IdleThread EXCEPT !.pc = "entry", !.target = target]

NoReq == [direction |-> "none"]

\* no scan_worker call is under study
NoCall == <<>>

\* the five row counts of the store
Counts ==
    <<Cardinality(pixiv_works), BagCardinality(pixiv_pages), Cardinality(tweets),
      BagCardinality(tweet_media), Cardinality(other_works)>>

(***************************************************************************)
(* Store statements.                                                       *)
(***************************************************************************)
RECURSIVE InsertOrReplace(_, _)
InsertOrReplace(table, rows) ==
    IF rows = <<>> THEN table
    ELSE InsertOrReplace(
            {r \in table : r.id # Head(rows).id} \cup {Head(rows)}, Tail(rows))

\* executemany("INSERT OR IGNORE INTO <table with primary key id> ...", rows)
RECURSIVE InsertOrIgnore(_, _)
InsertOrIgnore(table, rows) ==
    IF rows = <<>> THEN table
    ELSE InsertOrIgnore(
            IF \E r \in table : r.id = Head(rows).id
            THEN table ELSE table \cup {Head(rows)},
            Tail(rows))

\* executemany("INSERT OR IGNORE INTO <table without key> ...", rows)
RECURSIVE InsertAll(_, _)
InsertAll(table, rows) ==
    IF rows = <<>> THEN table
    ELSE InsertAll(table (+) SetToBag({Head(rows)}), Tail(rows))

\* SELECT file_path FROM <table>
FilePaths(table) == {r.file_path : r \in BagToSet(table)}

ReconcilablePagesOnly(r, pages, media) == r.file_path \in FilePaths(pages)

\* the WHERE clause of the reconciliation DELETE
Reconcilable(r, pages, media) ==
    \/ r.file_path \in FilePaths(pages)
    \/ r.file_path \in FilePaths(media)

(***************************************************************************)
(* run_scan.                                                               *)
(***************************************************************************)
AlreadyScanningUnchecked == FALSE

\* line 233: the entry check made under scan_lock
AlreadyScanning == is_scanning

\* lines 232-234: with scan_lock: if is_scanning: return / is_scanning = True
Enter(t) ==
    /\ th[t].pc = "entry"
    /\ IF AlreadyScanning
       THEN /\ th' = [th EXCEPT ![t] = IdleThread]
            /\ UNCHANGED is_scanning
       ELSE /\ is_scanning' = TRUE
            /\ th' = [th EXCEPT ![t].pc = "snap"]
    /\ UNCHANGED <<store, tree, target_dir, scan_status_msg, lastPass, req, resp, prev, call, ret, got>>

\* the file names os.walk lists for directory d
Listing(d) ==
    LET ps == SelectSeq(Universe, LAMBDA p : p \in tree /\ p[1] = d)
    IN  [i \in DOMAIN ps |-> ps[i][2]]

\* lines 248-253: one task per visited directory that has files
WalkTasks(target) ==
    {<<d, Listing(d)>> : d \in {x \in Range(DirsUnder(target)) :
                                    Listing(x) # <<>> /\ ~HiddenDir(x)}}

\* what every failing step of run_scan leads to (lines 333-335)
Raise(t) ==
    /\ scan_status_msg' = "error"
    /\ th' = [th EXCEPT ![t].pc = "finally", ![t].ok = FALSE]
    /\ lastPass' = <<>>

\* lines 239-255: the id snapshot, the walk and the first status message
Snapshot(t) ==
    /\ th[t].pc = "snap"
    /\ \/ /\ th' = [th EXCEPT
                      ![t].pc = "pool",
                      ![t].ex_pixiv = {r.id : r \in pixiv_works},
                      ![t].ex_tweets = {r.id : r \in tweets},
                      ![t].ex_others = {r.id : r \in other_works},
                      ![t].tasks = WalkTasks(th[t].target),
                      ![t].walked = WalkTasks(th[t].target),
                      ![t].clean = TRUE,
                      ![t].base = IF lastPass # <<>> /\ lastPass[1] = th[t].target
                                  THEN lastPass[2] ELSE <<>>]
          /\ scan_status_msg' = "folders"
          /\ UNCHANGED lastPass
       \/ Raise(t)
    /\ UNCHANGED <<store, tree, target_dir, is_scanning, req, resp, prev, call, ret, got>>

\* data["pages"].sort(key=lambda x: x[0]): a stable sort by raw page number
RECURSIVE InsertPage(_, _)
InsertPage(sorted, pg) ==
    IF sorted = <<>> THEN <<pg>>
    ELSE IF sorted[Len(sorted)][1] <= pg[1] THEN Append(sorted, pg)
    ELSE Append(InsertPage(SubSeq(sorted, 1, Len(sorted) - 1), pg), sorted[Len(sorted)])

RECURSIVE SortPages(_)
SortPages(pages) ==
    IF pages = <<>> THEN <<>>
    ELSE InsertPage(SortPages(SubSeq(pages, 1, Len(pages) - 1)), pages[Len(pages)])

\* lines 278-281: the dense renumbering of one work's pages
FinalPages(wid, pages) ==
    LET sorted == SortPages(pages)
    IN  [i \in DOMAIN sorted |->
            [work_id |-> wid, page_num |-> i - 1, file_path |-> sorted[i][2],
             media_type |-> sorted[i][3]]]

\* line 282: the ArtworkWork row of one bucket
WorkRow(b) ==
    [id |-> b.wid, title |-> b.title, author |-> b.author, timestamp |-> b.timestamp,
     total_pages |-> Len(b.pages), is_liked |-> 0, folder_name |-> b.folder,
     file_mtime |-> b.timestamp]

RECURSIVE Flatten(_)
Flatten(ss) == IF ss = <<>> THEN <<>> ELSE Head(ss) \o Flatten(Tail(ss))

AggregateNothing(l, res) == l

\* lines 270-287: one task's result added to the write buffers and counters
Aggregate(l, res) ==
    [l EXCEPT
       !.b_tweets = @ \o [i \in DOMAIN res.t_buf |-> res.t_buf[i].row],
       !.b_tweet_m = @ \o Flatten([i \in DOMAIN res.t_buf |-> res.t_buf[i].media]),
       !.b_pix_w = @ \o [i \in DOMAIN res.p_buf |-> WorkRow(res.p_buf[i])],
       !.b_pix_p = @ \o Flatten([i \in DOMAIN res.p_buf |->
                                   FinalPages(res.p_buf[i].wid, res.p_buf[i].pages)]),
       !.b_others = @ \o res.o_buf,
       !.new_cnt = [t |-> @.t + Len(res.t_buf), p |-> @.p + Len(res.p_buf),
                    o |-> @.o + Len(res.o_buf)]]

\* lines 268-307: one completed future.  outcome names what raised inside the
\* loop body: nothing ("ok"), the worker ("worker"), or the first statement
\* of a threshold flush ("tweets", "pix", "others"); the inner except
\* swallows it and the loop goes on
TaskDone(t) ==
    /\ th[t].pc = "pool"
    /\ \E task \in th[t].tasks, outcome \in {"ok", "worker", "tweets", "pix", "others"} :
        LET l == th[t]
            res == ScanWorker(task[1], task[2], l.ex_pixiv, l.ex_tweets, l.ex_others)
            agg == IF outcome = "worker" THEN l ELSE Aggregate(l, res)
            fullT == Len(agg.b_tweets) >= BATCH
            fullP == Len(agg.b_pix_w) >= BATCH
            fullO == Len(agg.b_others) >= BATCH
            doT == fullT /\ outcome \in {"ok", "pix", "others"}
            doP == fullP /\ outcome \in {"ok", "others"}
            doO == fullO /\ outcome = "ok"
            cnt == agg.new_cnt
        IN  /\ outcome = "tweets" => fullT
            /\ outcome = "pix" => fullP
            /\ outcome = "others" => fullO
            /\ tweets' = IF doT THEN InsertOrIgnore(tweets, agg.b_tweets) ELSE tweets
            /\ tweet_media' = IF doT THEN InsertAll(tweet_media, agg.b_tweet_m)
                              ELSE tweet_media
            /\ pixiv_works' = IF doP THEN InsertOrIgnore(pixiv_works, agg.b_pix_w)
                              ELSE pixiv_works
            /\ pixiv_pages' = IF doP THEN InsertAll(pixiv_pages, agg.b_pix_p)
                              ELSE pixiv_pages
            /\ other_works' = IF doO THEN InsertOrIgnore(other_works, agg.b_others)
                              ELSE other_works
            /\ th' = [th EXCEPT ![t] =
                        [agg EXCEPT
                           !.tasks = @ \ {task},
                           !.b_tweets = IF doT THEN <<>> ELSE @,
                           !.b_tweet_m = IF doT THEN <<>> ELSE @,
                           !.b_pix_w = IF doP THEN <<>> ELSE @,
                           !.b_pix_p = IF doP THEN <<>> ELSE @,
                           !.b_others = IF doO THEN <<>> ELSE @,
                           !.clean = @ /\ outcome = "ok",
                           !.failed = IF outcome = "worker" THEN @ \cup {task} ELSE @]]
            /\ scan_status_msg' =
                  IF outcome = "ok" /\ (cnt.t + cnt.p + cnt.o) % 100 = 0
                  THEN "progress" ELSE scan_status_msg
    /\ UNCHANGED <<tree, target_dir, is_scanning, lastPass, req, resp, prev, call, ret, got>>

\* lines 309-318: the leftover buffers, written in one transaction
FinalFlush(t) ==
    /\ th[t].pc = "pool"
    /\ th[t].tasks = {}
    /\ \/ /\ tweets' = InsertOrIgnore(tweets, th[t].b_tweets)
          /\ tweet_media' = InsertAll(tweet_media, th[t].b_tweet_m)
          /\ pixiv_works' = InsertOrIgnore(pixiv_works, th[t].b_pix_w)
          /\ pixiv_pages' = InsertAll(pixiv_pages, th[t].b_pix_p)
          /\ other_works' = InsertOrIgnore(other_works, th[t].b_others)
          /\ th' = [th EXCEPT ![t].pc = "recon"]
          /\ UNCHANGED <<scan_status_msg, lastPass>>
       \/ /\ Raise(t)
          /\ UNCHANGED store
    /\ UNCHANGED <<tree, target_dir, is_scanning, req, resp, prev, call, ret, got>>

\* lines 321-330: the reconciliation DELETE and the completion message
Reconcile(t) ==
    /\ th[t].pc = "recon"
    /\ UNCHANGED <<pixiv_works, pixiv_pages, tweets, tweet_media, tree, target_dir,
                   is_scanning, req, resp, prev, call, ret, got>>
    /\ \/ /\ other_works' = {r \in other_works :
                                ~Reconcilable(r, pixiv_pages, tweet_media)}
          /\ scan_status_msg' = "done"
          /\ th' = [th EXCEPT ![t].pc = "finally", ![t].ok = TRUE]
          /\ lastPass' = IF th[t].clean THEN <<th[t].target, Counts'>> ELSE <<>>
       \/ /\ Raise(t)
          /\ UNCHANGED other_works

ClearedFlagKept == is_scanning

\* line 337: the value the finally clause gives the scan flag
ClearedFlag == FALSE

\* lines 336-337: finally: is_scanning = False
Finally(t) ==
    /\ th[t].pc = "finally"
    /\ is_scanning' = ClearedFlag
    /\ th' = [th EXCEPT ![t] = IdleThread]
    /\ UNCHANGED <<store, tree, target_dir, scan_status_msg, lastPass, req, resp, prev, call, ret, got>>

(***************************************************************************)
(* The requests that change the state from outside the scan.               *)
(***************************************************************************)
\* lines 366-375: set_path with a path that exists
SetPath(path) ==
    /\ target_dir' = path
    /\ IF ~is_scanning
       THEN \E t \in Threads :
               /\ th[t].pc = "none"
               /\ \A u \in Threads : u < t => th[u].pc # "none"
               /\ th' = [th EXCEPT ![t] = Spawned(path)]
       ELSE UNCHANGED th
    /\ UNCHANGED <<store, tree, is_scanning, scan_status_msg, lastPass, req, resp, prev, call, ret, got>>

\* line 367: a path that does not exist is refused with status 400
SetPathRejected ==
    UNCHANGED vars

\* UPDATE <table> SET is_liked = val WHERE id = id
SetLiked(table, id, val) ==
    {IF r.id = id THEN [r EXCEPT !.is_liked = val] ELSE r : r \in table}

\* the identifiers the like requests of the model name: a work, a post and
\* one that no row has
LikeIds == {<<"111111">>, <<T2>>, <<"0">>}

\* lines 397-404: toggle_like
ToggleLike(type, id, liked) ==
    LET val == IF liked THEN 1 ELSE 0
    IN  /\ pixiv_works' = IF type = "pixiv" THEN SetLiked(pixiv_works, id, val)
                          ELSE pixiv_works
        /\ tweets' = IF type # "pixiv" /\ type = "tweet" THEN SetLiked(tweets, id, val)
                     ELSE tweets
        /\ other_works' = IF type # "pixiv" /\ type # "tweet"
                          THEN SetLiked(other_works, id, val) ELSE other_works
        /\ UNCHANGED <<pixiv_pages, tweet_media, tree, target_dir, is_scanning,
                       scan_status_msg, th, lastPass, req, resp, prev, call, ret, got>>

\* a JSON sidecar is saved into the tree by the downloader
AddFile(p) ==
    /\ p \in Addable \ tree
    /\ tree' = tree \cup {p}
    /\ lastPass' = <<>>
    /\ th' = [t \in Threads |-> [th[t] EXCEPT !.clean = FALSE, !.base = <<>>]]
    /\ UNCHANGED <<store, target_dir, is_scanning, scan_status_msg, req, resp, prev, call, ret, got>>

(***************************************************************************)
(* get_stream: the stream engine.                                          *)
(***************************************************************************)
\* target_date = None
NoTarget == -1

Min(a, b) == IF a <= b THEN a ELSE b

\* s[a:b] of Python, for 0 <= a
Slice(s, a, b) == SubSeq(s, a + 1, Min(Len(s), b))

Reverse(s) == [i \in DOMAIN s |-> s[Len(s) + 1 - i]]

OpOfInclusive(sort, fetch_dir) ==
    IF sort = "asc"
    THEN (IF fetch_dir = "older" THEN ">=" ELSE "<=")
    ELSE (IF fetch_dir = "older" THEN "<=" ELSE ">=")

\* lines 457-468: the comparison operator of (sort, fetch_dir)
OpOf(sort, fetch_dir) ==
    IF sort = "asc"
    THEN (IF fetch_dir = "older" THEN ">=" ELSE "<")
    ELSE (IF fetch_dir = "older" THEN "<=" ELSE ">")

OrderOfAlwaysDesc(sort, fetch_dir) == "DESC"

\* lines 457-468: the ORDER BY direction of (sort, fetch_dir)
OrderOf(sort, fetch_dir) ==
    IF sort = "asc"
    THEN (IF fetch_dir = "older" THEN "ASC" ELSE "DESC")
    ELSE (IF fetch_dir = "older" THEN "DESC" ELSE "ASC")

\* file_mtime <op> ?
Cmp(op, a, b) ==
    CASE op = "<=" -> a <= b
      [] op = ">" -> a > b
      [] op = ">=" -> a >= b
      [] op = "<" -> a < b

\* text LIKE '%q%' on the texts and queries of the model
Like(text, q) ==
    \/ q = text
    \/ <<q, text>> \in {<<"art", "artist">>, <<"hel", "hello">>, <<"mp4", "x.mp4">>}

\* lines 480-483: the text clause of a table
TextMatch(table, row, q) ==
    CASE table = "pixiv_works" -> Like(row.title, q) \/ Like(row.author, q)
      [] table = "tweets" -> Like(row.text, q) \/ Like(row.user_name, q)
      [] table = "other_works" -> Like(row.filename, q)

FilterMatchVideoUnchecked(table, row, filter_type) ==
    LET pages == {p \in BagToSet(pixiv_pages) : p.work_id = row.id}
        media == {m \in BagToSet(tweet_media) : m.tweet_id = row.id}
    IN  CASE filter_type = "liked" -> row.is_liked = 1
          [] filter_type = "text" ->
                (IF table # "tweets" THEN FALSE ELSE media = {})
          [] filter_type = "video" ->
                (CASE table = "pixiv_works" -> \E p \in pages : p.media_type = "video"
                   [] table = "tweets" -> TRUE
                   [] table = "other_works" -> row.media_type = "video")
          [] filter_type = "image" ->
                (CASE table = "pixiv_works" -> ~\E p \in pages : p.media_type = "video"
                   [] table = "tweets" ->
                         media # {} /\ ~\E m \in media : m.media_type = "video"
                   [] table = "other_works" -> row.media_type = "image")
          [] OTHER -> TRUE

FilterMatchAnyImage(table, row, filter_type) ==
    LET pages == {p \in BagToSet(pixiv_pages) : p.work_id = row.id}
        media == {m \in BagToSet(tweet_media) : m.tweet_id = row.id}
    IN  CASE filter_type = "liked" -> row.is_liked = 1
          [] filter_type = "text" ->
                (IF table # "tweets" THEN FALSE ELSE media = {})
          [] filter_type = "video" ->
                (CASE table = "pixiv_works" -> \E p \in pages : p.media_type = "video"
                   [] table = "tweets" -> \E m \in media : m.media_type = "video"
                   [] table = "other_works" -> row.media_type = "video")
          [] filter_type = "image" ->
                (CASE table = "pixiv_works" -> \E p \in pages : p.media_type = "image"
                   [] table = "tweets" ->
                         media # {} /\ ~\E m \in media : m.media_type = "video"
                   [] table = "other_works" -> row.media_type = "image")
          [] OTHER -> TRUE

FilterMatchTextAnyFamily(table, row, filter_type) ==
    LET pages == {p \in BagToSet(pixiv_pages) : p.work_id = row.id}
        media == {m \in BagToSet(tweet_media) : m.tweet_id = row.id}
    IN  CASE filter_type = "liked" -> row.is_liked = 1
          [] filter_type = "text" ->
                (IF table # "tweets" THEN TRUE ELSE media = {})
          [] filter_type = "video" ->
                (CASE table = "pixiv_works" -> \E p \in pages : p.media_type = "video"
                   [] table = "tweets" -> \E m \in media : m.media_type = "video"
                   [] table = "other_works" -> row.media_type = "video")
          [] filter_type = "image" ->
                (CASE table = "pixiv_works" -> ~\E p \in pages : p.media_type = "video"
                   [] table = "tweets" ->
                         media # {} /\ ~\E m \in media : m.media_type = "video"
                   [] table = "other_works" -> row.media_type = "image")
          [] OTHER -> TRUE

\* lines 485-496: the content filter clause of a table
FilterMatch(table, row, filter_type) ==
    LET pages == {p \in BagToSet(pixiv_pages) : p.work_id = row.id}
        media == {m \in BagToSet(tweet_media) : m.tweet_id = row.id}
    IN  CASE filter_type = "liked" -> row.is_liked = 1
          [] filter_type = "text" ->
                (IF table # "tweets" THEN FALSE ELSE media = {})
          [] filter_type = "video" ->
                (CASE table = "pixiv_works" -> \E p \in pages : p.media_type = "video"
                   [] table = "tweets" -> \E m \in media : m.media_type = "video"
                   [] table = "other_works" -> row.media_type = "video")
          [] filter_type = "image" ->
                (CASE table = "pixiv_works" -> ~\E p \in pages : p.media_type = "video"
                   [] table = "tweets" ->
                         media # {} /\ ~\E m \in media : m.media_type = "video"
                   [] table = "other_works" -> row.media_type = "image")
          [] OTHER -> TRUE

\* lines 472-503: build_query, as the predicate its WHERE clause states
Where(table, row, r, op, fetch_target) ==
    /\ (r.folder # "" /\ r.folder # "ALL") => row.folder_name = r.folder
    /\ r.q # "" => TextMatch(table, row, r.q)
    /\ FilterMatch(table, row, r.filter_type)
    /\ fetch_target # NoTarget => Cmp(op, row.file_mtime, fetch_target)

TableRows(table) ==
    CASE table = "pixiv_works" -> pixiv_works
      [] table = "tweets" -> tweets
      [] table = "other_works" -> other_works

\* the rows build_query selects, as (type, id, sort_key)
Selected(table, type_label, r, op, fetch_target) ==
    {[type |-> type_label, id |-> row.id, sort_key |-> row.file_mtime] :
        row \in {x \in TableRows(table) : Where(table, x, r, op, fetch_target)}}

\* a row that ORDER BY sort_key <order_s> may put first
First(S, order_s) ==
    {x \in S : \A y \in S : IF order_s = "DESC" THEN y.sort_key <= x.sort_key
                                ELSE y.sort_key >= x.sort_key}

\* ORDER BY sort_key <order_s>: every order of the rows it allows (rows of
\* equal sort_key come in an order SQL leaves open)
RECURSIVE Orders(_, _)
Orders(S, order_s) ==
    IF S = {} THEN {<<>>}
    ELSE UNION {{<<x>> \o rest : rest \in Orders(S \ {x}, order_s)} :
                    x \in First(S, order_s)}

TableQueryPageLimit(table, type_label, r, op, order_s, fetch_limit, fetch_target) ==
    {Slice(o, 0, fetch_limit) :
        o \in Orders(Selected(table, type_label, r, op, fetch_target), order_s)}

\* line 513: the query of one table with its LIMIT
TableQuery(table, type_label, r, op, order_s, fetch_limit, fetch_target) ==
    {Slice(o, 0, fetch_limit + r.offset) :
        o \in Orders(Selected(table, type_label, r, op, fetch_target), order_s)}

\* results.sort(key=lambda x: x[2], reverse=reverse): a stable sort
RECURSIVE InsertResult(_, _, _)
InsertResult(sorted, x, order_s) ==
    IF sorted = <<>> THEN <<x>>
    ELSE IF (IF order_s = "DESC" THEN sorted[Len(sorted)].sort_key >= x.sort_key
             ELSE sorted[Len(sorted)].sort_key <= x.sort_key)
         THEN Append(sorted, x)
         ELSE Append(InsertResult(SubSeq(sorted, 1, Len(sorted) - 1), x, order_s),
                     sorted[Len(sorted)])

RECURSIVE SortResults(_, _)
SortResults(res, order_s) ==
    IF res = <<>> THEN <<>>
    ELSE InsertResult(SortResults(SubSeq(res, 1, Len(res) - 1), order_s),
                      res[Len(res)], order_s)

\* lines 434-521: fetch_ids, as the set of lists it can return
FetchIds(r, fetch_dir, fetch_limit, fetch_target) ==
    LET op == OpOf(r.sort, fetch_dir)
        order_s == OrderOf(r.sort, fetch_dir)
        q1 == IF r.source \in {"all", "pixiv"}
              THEN TableQuery("pixiv_works", "pixiv", r, op, order_s, fetch_limit, fetch_target)
              ELSE {<<>>}
        q2 == IF r.source \in {"all", "tweets"}
              THEN TableQuery("tweets", "tweet", r, op, order_s, fetch_limit, fetch_target)
              ELSE {<<>>}
        q3 == IF r.source \in {"all", "others"}
              THEN TableQuery("other_works", "other", r, op, order_s, fetch_limit, fetch_target)
              ELSE {<<>>}
    IN  {Slice(SortResults(a \o b \o c, order_s), r.offset, r.offset + fetch_limit) :
            a \in q1, b \in q2, c \in q3}

\* lines 533-537: the list an 'around' request makes of its two halves
Around(sort, newer_list, older_list) ==
    IF sort = "desc" THEN Reverse(newer_list) \o older_list
    ELSE newer_list \o Reverse(older_list)

FinalIdsWholeHalves(r) ==
    IF r.direction = "around" /\ r.target_date # NoTarget
    THEN {Around(r.sort, n, o) :
            n \in FetchIds(r, "newer", r.limit, r.target_date),
            o \in FetchIds(r, "older", r.limit, r.target_date)}
    ELSE IF r.direction = "newer"
    THEN {IF r.sort = "desc" THEN Reverse(x) ELSE x :
            x \in FetchIds(r, "newer", r.limit, r.target_date)}
    ELSE FetchIds(r, "older", r.limit, r.target_date)

\* lines 526-546: the (type, id, sort_key) lists the request can select
FinalIds(r) ==
    IF r.direction = "around" /\ r.target_date # NoTarget
    THEN LET half == r.limit \div 2
         IN  {Around(r.sort, n, o) :
                n \in FetchIds(r, "newer", half, r.target_date),
                o \in FetchIds(r, "older", half, r.target_date)}
    ELSE IF r.direction = "newer"
    THEN {IF r.sort = "desc" THEN Reverse(x) ELSE x :
            x \in FetchIds(r, "newer", r.limit, r.target_date)}
    ELSE FetchIds(r, "older", r.limit, r.target_date)

\* to_url: the quoted path of the file relative to the ingestion root
ToUrl(path) == <<"/files/", target_dir, path[1], path[2]>>

\* lines 551-579: the record of one selected (type, id); the media list is
\* kept as a set
HydrateOne(x) ==
    LET table == CASE x.type = "pixiv" -> "pixiv_works"
                   [] x.type = "tweet" -> "tweets"
                   [] x.type = "other" -> "other_works"
        row == CHOOSE y \in TableRows(table) : y.id = x.id
    IN  [type |-> x.type, id |-> row.id, timestamp |-> row.file_mtime,
         is_liked |-> row.is_liked # 0, folder |-> row.folder_name,
         media |->
            CASE x.type = "pixiv" ->
                    {[url |-> ToUrl(p.file_path), type |-> p.media_type, index |-> p.page_num] :
                        p \in {p \in BagToSet(pixiv_pages) : p.work_id = row.id}}
              [] x.type = "tweet" ->
                    {[url |-> ToUrl(m.file_path), type |-> m.media_type, index |-> -1] :
                        m \in {m \in BagToSet(tweet_media) : m.tweet_id = row.id}}
              [] x.type = "other" ->
                    {[url |-> ToUrl(row.file_path), type |-> row.media_type, index |-> -1]}]

\* lines 549-582: the pages get_stream can return for request r
GetStream(r) ==
    {[i \in DOMAIN ids |-> HydrateOne(ids[i])] : ids \in FinalIds(r)}

\* get_stream with its default parameters
DefaultRequest ==
    [limit |-> 50, offset |-> 0, source |-> "all", q |-> "", sort |-> "desc",
     folder |-> "", filter_type |-> "all", target_date |-> NoTarget,
     direction |-> "older"]

\* a stream request served while the server runs: it reads the store and
\* changes nothing
StreamRead ==
    /\ GetStream(DefaultRequest) # {}
    /\ UNCHANGED vars

(***************************************************************************)
(* The specification of the server.                                        *)
(***************************************************************************)
\* lines 341-352: lifespan, with and without a configured directory
Init ==
    /\ pixiv_works = {} /\ tweets = {} /\ other_works = {}
    /\ pixiv_pages = EmptyBag /\ tweet_media = EmptyBag
    /\ tree = InitialTree
    /\ target_dir \in {NoDir, R1}
    /\ is_scanning = FALSE
    /\ scan_status_msg = ""
    /\ th = [t \in 1..1 |->
                IF t = 1 /\ target_dir # NoDir THEN Spawned(target_dir) ELSE IdleThread]
    /\ lastPass = <<>>
    /\ req = NoReq
    /\ resp = <<>>
    /\ prev = <<>>
    /\ call = NoCall
    /\ ret = NoCall
    /\ got = {}

ScanStep(t) ==
    \/ Enter(t)
    \/ Snapshot(t)
    \/ TaskDone(t)
    \/ FinalFlush(t)
    \/ Reconcile(t)
    \/ Finally(t)

Next ==
    \/ \E t \in Threads : ScanStep(t)
    \/ \E path \in Roots : SetPath(path)
    \/ SetPathRejected
    \/ \E type \in {"pixiv", "tweet", "other"}, id \in LikeIds, liked \in BOOLEAN :
          ToggleLike(type, id, liked)
    \/ \E p \in Addable : AddFile(p)
    \/ StreamRead

Spec == Init /\ [][Next]_vars

(***************************************************************************)
(* The scan triggers alone, with MaxThreads thread slots: the startup      *)
(* thread and the threads of concurrent set_path requests.                 *)
(***************************************************************************)
ConcInit ==
    /\ pixiv_works = {} /\ tweets = {} /\ other_works = {}
    /\ pixiv_pages = EmptyBag /\ tweet_media = EmptyBag
    /\ tree = InitialTree
    /\ target_dir \in {NoDir, R1}
    /\ is_scanning = FALSE
    /\ scan_status_msg = ""
    /\ th = [t \in 1..MaxThreads |->
                IF t = 1 /\ target_dir # NoDir THEN Spawned(target_dir) ELSE IdleThread]
    /\ lastPass = <<>>
    /\ req = NoReq
    /\ resp = <<>>
    /\ prev = <<>>
    /\ call = NoCall
    /\ ret = NoCall
    /\ got = {}

ConcNext ==
    \/ \E t \in Threads : ScanStep(t)
    \/ \E path \in Roots : SetPath(path)
    \/ SetPathRejected

ConcSpec == ConcInit /\ [][ConcNext]_vars

\* some run_scan call has a step to take (ENABLED of the threads' steps:
\* every position other than "none" has one, and it changes th)
ScanEnabled == \E t \in Threads : th[t].pc # "none"

\* the run_scan threads keep running: weak fairness of the threads' steps,
\* WF_vars(\E t \in Threads : ScanStep(t)), written out with ScanEnabled
FairConcSpec ==
    ConcSpec /\ ([]<>(~ScanEnabled) \/ []<><<\E t \in Threads : ScanStep(t)>>_vars)

(***************************************************************************)
(* Properties of the scan orchestrator.                                    *)
(***************************************************************************)
\* run_scan calls past the entry check
Scanning == {t \in Threads : th[t].pc \notin {"none", "entry"}}

\* C1: single-flight.  At most one run_scan call is past its lock-guarded
\* entry check at any time, and a call that returns at the entry check
\* because a scan is running leaves the scan flag, the status message and
\* the store as they were.
C1_SingleFlight ==
    /\ [](Cardinality(Scanning) <= 1)
    /\ [][\A t \in Threads :
            (th[t].pc = "entry" /\ is_scanning /\ th'[t].pc = "none")
                => UNCHANGED <<is_scanning, scan_status_msg, store>>]_vars

\* a scan is running while another run_scan call waits at the entry check
C1_Witness ==
    \E t, u \in Threads : t \in Scanning /\ th[u].pc = "entry" /\ is_scanning

\* C2: every pass that has set the scan flag eventually clears it, with a
\* final status message that is the completion summary or an error message.
C2_FlagCleared ==
    is_scanning ~> (~is_scanning /\ scan_status_msg \in {"done", "error"})

\* a pass that raised has ended: the flag is clear and the message is the error
C2_Witness ==
    /\ ~is_scanning
    /\ scan_status_msg = "error"
    /\ \A t \in Threads : th[t].pc = "none"

\* no UnclassifiedMedia row shares its file path with a page or a post medium
Exclusive ==
    \A r \in other_works :
        r.file_path \notin FilePaths(pixiv_pages) \cup FilePaths(tweet_media)

\* a pass whose reconciliation has run and that has not yet returned
Finished(t) == th[t].pc = "finally" /\ th[t].ok

\* C3: exclusive classification.  When a pass finishes with reconciliation
\* executed, no file path of other_works is also in pixiv_pages or tweet_media.
C3_Exclusive == \A t \in Threads : Finished(t) => Exclusive

\* a finished pass during which a file that had an UnclassifiedMedia row at
\* the snapshot was claimed by a Post: reconciliation removed the row
C3_Witness ==
    \E t \in Threads :
        /\ Finished(t)
        /\ \E p \in FilePaths(tweet_media) : FileId(p) \in th[t].ex_others

\* a primary key occurs once in its table
UniqueIds(table) == \A r1, r2 \in table : r1.id = r2.id => r1 = r2

\* C4: idempotent rescan.  A complete pass that follows a complete pass over
\* the same root with the tree unchanged ends with the row counts the first
\* one ended with, and no identifier occurs twice within a family.
C4_Idempotent ==
    /\ UniqueIds(pixiv_works) /\ UniqueIds(tweets) /\ UniqueIds(other_works)
    /\ \A t \in Threads :
          (Finished(t) /\ th[t].clean /\ th[t].base # <<>>) => Counts = th[t].base

\* a second complete pass over an unchanged tree has finished on a store
\* that holds works, pages and unclassified media
C4_Witness ==
    \E t \in Threads :
        /\ Finished(t) /\ th[t].clean /\ th[t].base # <<>>
        /\ Counts[1] > 0 /\ Counts[2] > 1 /\ Counts[5] > 0

\* a write buffer of thread t has reached the flush threshold
FullBuffer(t) ==
    \/ Len(th[t].b_tweets) >= BATCH
    \/ Len(th[t].b_pix_w) >= BATCH
    \/ Len(th[t].b_others) >= BATCH

\* C5 (as claimed): a threshold flush that raises aborts the pass, so no
\* pass is ever still collecting task results with a buffer at the threshold.
C5_FlushFailureAborts ==
    \A t \in Threads : th[t].pc = "pool" => ~FullBuffer(t)

\* C8 (as claimed): once no scan is running, no file path is stored both as
\* an ArtworkPage and as a PostMedia row.
C8_PageOrMedia ==
    (\A t \in Threads : th[t].pc = "none")
        => FilePaths(pixiv_pages) \cap FilePaths(tweet_media) = {}

\* the page rows of work wid
PagesOf(wid) == {r \in BagToSet(pixiv_pages) : r.work_id = wid}

\* the raw page number in the file name of a stored page
RawPage(r) == PixivPage(r.file_path[2])

\* C9 (as claimed): the page indices of every work are 0..k-1, each used
\* once, in the order of the raw page numbers of the file names.
C9_DensePages ==
    \A w \in pixiv_works :
        LET ps == PagesOf(w.id) IN
        /\ \A r \in ps : CopiesIn(r, pixiv_pages) = 1
        /\ {r.page_num : r \in ps} = 0..(Cardinality(ps) - 1)
        /\ \A r1, r2 \in ps : r1.page_num = r2.page_num => r1 = r2
        /\ \A r1, r2 \in ps : r1.page_num < r2.page_num => RawPage(r1) <= RawPage(r2)

\* row r of a keyed table is kept by the step, up to its liked flag
Kept(r, table2) ==
    \E r2 \in table2 : r2.id = r.id /\ [r2 EXCEPT !.is_liked = r.is_liked] = r

\* the step changes the liked flag of some row of the table
LikeChanged(table, table2) ==
    \E r \in table, r2 \in table2 : r2.id = r.id /\ r2.is_liked # r.is_liked

\* C10: record lifecycle.  Every step keeps every ArtworkWork and Post row
\* with all its fields but the liked flag; a step that changes a liked flag
\* is a like request (it changes nothing of the scan, the tree or the
\* configuration); page and media rows are never deleted; and the only step
\* that deletes an UnclassifiedMedia row is the reconciliation of a pass.
C10_Lifecycle ==
    [][/\ \A r \in pixiv_works : Kept(r, pixiv_works')
       /\ \A r \in tweets : Kept(r, tweets')
       /\ (LikeChanged(pixiv_works, pixiv_works') \/ LikeChanged(tweets, tweets')
             \/ LikeChanged(other_works, other_works'))
            => UNCHANGED <<th, tree, target_dir, is_scanning, scan_status_msg,
                           pixiv_pages, tweet_media>>
       /\ pixiv_pages \sqsubseteq pixiv_pages'
       /\ tweet_media \sqsubseteq tweet_media'
       /\ (\E r \in other_works : ~Kept(r, other_works'))
            => \E t \in Threads : th[t].pc = "recon" /\ th'[t].pc = "finally"
      ]_vars

\* a work that is liked was in the snapshot of a pass that has finished:
\* the rescan kept the row and its flag
C10_Witness ==
    \E t \in Threads, r \in pixiv_works :
        Finished(t) /\ r.is_liked = 1 /\ r.id \in th[t].ex_pixiv

(***************************************************************************)
(* The stream engine on an unchanged store: a client sends a request, and  *)
(* may follow an 'older' page with the 'newer' request anchored at the     *)
(* timestamp of the page's last item.                                      *)
(***************************************************************************)
\* the records of the stores the stream is read from; each is absent or has
\* a file modification time in 1..MaxTs
StreamItems == {"w1", "p1", "p2", "o1"}

StreamStore(m) ==
    [pixiv_works |->
        {[id |-> <<"900001">>, title |-> "900001_p0.jpg", author |-> "artist",
          timestamp |-> m["w1"], total_pages |-> 2, is_liked |-> 0,
          folder_name |-> "artist_123", file_mtime |-> m["w1"]] : x \in {"w1"} \cap {i \in StreamItems : m[i] > 0}},
     pixiv_pages |->
        IF m["w1"] > 0
        THEN SetToBag({[work_id |-> <<"900001">>, page_num |-> 0,
                        file_path |-> Path(DirA, "900001_p0.jpg"), media_type |-> "image"],
                       [work_id |-> <<"900001">>, page_num |-> 1,
                        file_path |-> Path(DirA, "900001_p1.mp4"), media_type |-> "video"]})
        ELSE EmptyBag,
     tweets |->
        {[id |-> <<i>>, timestamp |-> 1700, user_name |-> "alice", text |-> "hello",
          json_path |-> Path(DirM, i), tweet_url |-> <<"https://x.com/alice/status/1">>,
          avatar_url |-> "", folder_name |-> "misc", file_mtime |-> m[i],
          is_liked |-> 0] : i \in {j \in {"p1", "p2"} : m[j] > 0}},
     tweet_media |->
        IF m["p2"] > 0
        THEN SetToBag({[tweet_id |-> <<"p2">>, file_path |-> Path(DirM, "x_p2_1.jpg"),
                        media_type |-> "image"]})
        ELSE EmptyBag,
     other_works |->
        {[id |-> FileId(Path(DirM, "x.mp4")), filename |-> "x.mp4", folder_name |-> "misc",
          file_path |-> Path(DirM, "x.mp4"), media_type |-> "video",
          file_mtime |-> m["o1"], is_liked |-> 0] : x \in {"o1"} \cap {i \in StreamItems : m[i] > 0}}]

StreamRequests ==
    [limit : 1..MaxLimit, offset : 0..MaxOffset, source : {"all", "tweets"}, q : {""},
     sort : {"desc", "asc"}, folder : {""}, filter_type : {"all"},
     target_date : {NoTarget} \cup (1..MaxTs),
     direction : {"older", "newer", "around"}]

StreamInit ==
    /\ \E m \in [StreamItems -> 0..MaxTs] :
          /\ pixiv_works = StreamStore(m).pixiv_works
          /\ pixiv_pages = StreamStore(m).pixiv_pages
          /\ tweets = StreamStore(m).tweets
          /\ tweet_media = StreamStore(m).tweet_media
          /\ other_works = StreamStore(m).other_works
    /\ tree = InitialTree
    /\ target_dir = R1
    /\ is_scanning = FALSE
    /\ scan_status_msg = "done"
    /\ th = [t \in 1..1 |-> IdleThread]
    /\ lastPass = <<>>
    /\ req = NoReq
    /\ resp = <<>>
    /\ prev = <<>>
    /\ call = NoCall
    /\ ret = NoCall
    /\ got = {}

\* the client sends its first request r and receives one of the pages the
\* request can yield
Request(r) ==
    /\ req = NoReq
    /\ req' = r
    /\ resp' \in GetStream(r)
    /\ prev' = <<>>
    /\ UNCHANGED <<store, tree, target_dir, is_scanning, scan_status_msg, th, lastPass,
                   call, ret, got>>

\* the client follows an 'older' page with the 'newer' request anchored at
\* the timestamp of the page's last item
NewerFromLast ==
    /\ req # NoReq
    /\ req.direction = "older"
    /\ resp # <<>>
    /\ prev' = <<req, resp>>
    /\ req' = [req EXCEPT !.direction = "newer",
                          !.target_date = resp[Len(resp)].timestamp]
    /\ resp' \in GetStream(req')
    /\ UNCHANGED <<store, tree, target_dir, is_scanning, scan_status_msg, th, lastPass,
                   call, ret, got>>

StreamNext ==
    \/ /\ req = NoReq
       /\ \E r \in StreamRequests : Request(r)
    \/ NewerFromLast

StreamSpec == StreamInit /\ [][StreamNext]_vars

(***************************************************************************)
(* Properties of the stream engine.                                        *)
(***************************************************************************)
NonIncreasing(page) ==
    \A i, j \in DOMAIN page : i < j => page[i].timestamp >= page[j].timestamp

NonDecreasing(page) ==
    \A i, j \in DOMAIN page : i < j => page[i].timestamp <= page[j].timestamp

\* C6 (as claimed): the page of an 'around' request with an anchor reads in
\* display order: non-increasing timestamps when the sort mode is
\* newest-first, non-decreasing when it is oldest-first.
C6_AroundDisplayOrder ==
    (req # NoReq /\ req.direction = "around" /\ req.target_date # NoTarget)
        => IF req.sort = "desc" THEN NonIncreasing(resp) ELSE NonDecreasing(resp)

\* the (type, id) of the records of a page
Records(page) == {<<page[i].type, page[i].id>> : i \in DOMAIN page}

\* C7 (as claimed): the 'newer' request anchored at the timestamp of the last
\* item of an 'older' page returns items of that page only.
C7_NewerWithinPage ==
    prev # <<>> => Records(resp) \subseteq Records(prev[2])

\* C7 (amended): for requests of offset 0, the 'newer' request anchored at
\* the timestamp t of the last item of an 'older' page P returns only records
\* strictly on the newer side of t, and every returned record that is not
\* beyond the anchor of the 'older' request is an item of P.
C7_NewerWithinPageUpToAnchor ==
    (prev # <<>> /\ prev[1].offset = 0) =>
        \A i \in DOMAIN resp :
            /\ Cmp(IF req.sort = "asc" THEN "<" ELSE ">", resp[i].timestamp, req.target_date)
            /\ (\/ prev[1].target_date = NoTarget
                \/ Cmp(IF req.sort = "asc" THEN ">=" ELSE "<=",
                       resp[i].timestamp, prev[1].target_date))
                 => <<resp[i].type, resp[i].id>> \in Records(prev[2])

\* a 'newer' follow-up that returns an item of the 'older' page together
\* with a record beyond the anchor of the 'older' request
C7_Witness ==
    /\ prev # <<>>
    /\ prev[1].offset = 0
    /\ Records(resp) \cap Records(prev[2]) # {}
    /\ Records(resp) \ Records(prev[2]) # {}

\* C12 (as claimed): the page of a 'newer' request with an anchor reads in
\* the display direction of the sort mode (non-increasing timestamps for
\* newest-first, non-decreasing for oldest-first) and all its items lie on
\* the before-the-top side of the anchor.
C12_NewerPrependable ==
    (req # NoReq /\ req.direction = "newer" /\ req.target_date # NoTarget) =>
        /\ IF req.sort = "desc" THEN NonIncreasing(resp) ELSE NonDecreasing(resp)
        /\ \A i \in DOMAIN resp :
              Cmp(IF req.sort = "desc" THEN ">" ELSE "<",
                  resp[i].timestamp, req.target_date)

\* the comparison against the anchor and the per-family order the table of
\* the specification gives (sort mode, direction)
ClaimedOp(sort, direction) ==
    CASE sort = "desc" /\ direction = "older" -> "<="
      [] sort = "desc" /\ direction = "newer" -> ">"
      [] sort = "asc" /\ direction = "older" -> ">="
      [] sort = "asc" /\ direction = "newer" -> "<"

ClaimedOrder(sort, direction) ==
    CASE sort = "desc" /\ direction = "older" -> "DESC"
      [] sort = "desc" /\ direction = "newer" -> "ASC"
      [] sort = "asc" /\ direction = "older" -> "ASC"
      [] sort = "asc" /\ direction = "newer" -> "DESC"

\* the (type, id, file modification time) of the records of the families a
\* request with family filter source reads
StoreRecords(source) ==
    (IF source \in {"all", "pixiv"}
     THEN {<<"pixiv", w.id, w.file_mtime>> : w \in pixiv_works} ELSE {})
    \cup (IF source \in {"all", "tweets"}
          THEN {<<"tweet", t.id, t.file_mtime>> : t \in tweets} ELSE {})
    \cup (IF source \in {"all", "others"}
          THEN {<<"other", o.id, o.file_mtime>> : o \in other_works} ELSE {})

\* the records of the families of r on the side op of the anchor
OnSide(r, op) == {x \in StoreRecords(r.source) : Cmp(op, x[3], r.target_date)}

\* list is among the n first of S in the order order_s: it holds n records
\* of S (all of S if S has fewer), in that order, and no record it leaves out
\* comes before one it holds
FirstOf(list, S, n, order_s) ==
    /\ \A i \in DOMAIN list : <<list[i].type, list[i].id, list[i].timestamp>> \in S
    /\ Len(list) = Min(n, Cardinality(S))
    /\ Cardinality(Records(list)) = Len(list)
    /\ IF order_s = "DESC" THEN NonIncreasing(list) ELSE NonDecreasing(list)
    /\ \A i \in DOMAIN list : \A y \in S :
          <<y[1], y[2]>> \notin Records(list) =>
              IF order_s = "DESC" THEN y[3] <= list[i].timestamp
              ELSE y[3] >= list[i].timestamp

\* the list fetch_ids returned for the 'newer' request whose page is resp
Fetched == IF req.direction = "newer" /\ req.sort = "desc" THEN Reverse(resp) ELSE resp

\* C15: with an anchor, every record an 'older' or 'newer' request returns
\* satisfies the comparison of the table, and the records are fetched in the
\* order of the table: at offset 0 the page holds the first page-size records
\* of that order among those that satisfy the comparison.
C15_DirectionTable ==
    (req # NoReq /\ req.direction \in {"older", "newer"} /\ req.target_date # NoTarget) =>
        /\ \A i \in DOMAIN resp :
              Cmp(ClaimedOp(req.sort, req.direction), resp[i].timestamp, req.target_date)
        /\ IF ClaimedOrder(req.sort, req.direction) = "DESC"
           THEN NonIncreasing(Fetched) ELSE NonDecreasing(Fetched)
        /\ req.offset = 0 =>
              FirstOf(Fetched, OnSide(req, ClaimedOp(req.sort, req.direction)),
                      req.limit, ClaimedOrder(req.sort, req.direction))

\* an oldest-first 'newer' request has returned two records of different
\* timestamps and left out a third that satisfies the comparison
C15_Witness ==
    /\ req # NoReq
    /\ req.direction = "newer" /\ req.sort = "asc" /\ req.target_date # NoTarget
    /\ req.offset = 0
    /\ Len(resp) = 2
    /\ resp[1].timestamp # resp[2].timestamp
    /\ Cardinality(OnSide(req, "<")) > 2

\* the two halves of an 'around' page: the leading records strictly on the
\* 'newer' side of the anchor and the records after them
NewerOp == IF req.sort = "desc" THEN ">" ELSE "<"
OlderOp == IF req.sort = "desc" THEN "<=" ELSE ">="
NewerCount == Cardinality({i \in DOMAIN resp : Cmp(NewerOp, resp[i].timestamp, req.target_date)})
NewerHalf == SubSeq(resp, 1, NewerCount)
OlderHalf == SubSeq(resp, NewerCount + 1, Len(resp))

Monotone(list) == NonIncreasing(list) \/ NonDecreasing(list)

\* what holds of an 'around' page at every offset: at most N items, in two
\* contiguous halves, one strictly on one side of the anchor and one on the
\* other side with the anchor's timestamp, each ordered by timestamp
AroundHalves ==
    /\ Len(resp) <= req.limit
    /\ \A i \in DOMAIN NewerHalf : Cmp(NewerOp, NewerHalf[i].timestamp, req.target_date)
    /\ \A i \in DOMAIN OlderHalf : Cmp(OlderOp, OlderHalf[i].timestamp, req.target_date)
    /\ Len(NewerHalf) <= req.limit \div 2
    /\ Len(OlderHalf) <= req.limit \div 2
    /\ Monotone(NewerHalf) /\ Monotone(OlderHalf)

\* each half holds the records closest to the anchor on its side
AroundClosest ==
    /\ FirstOf(IF req.sort = "desc" THEN Reverse(NewerHalf) ELSE NewerHalf,
               OnSide(req, NewerOp), req.limit \div 2, OrderOf(req.sort, "newer"))
    /\ FirstOf(IF req.sort = "desc" THEN OlderHalf ELSE Reverse(OlderHalf),
               OnSide(req, OlderOp), req.limit \div 2, OrderOf(req.sort, "older"))

AroundRequest == req # NoReq /\ req.direction = "around" /\ req.target_date # NoTarget

\* C16 (as claimed): an 'around' page has at most N items, in two contiguous
\* timestamp-ordered halves on the two sides of the anchor, each half holding
\* the records closest to the anchor on its side.
C16_AroundSymmetry ==
    AroundRequest => AroundHalves /\ AroundClosest

\* C16 (amended): the halves hold the closest records when the offset is 0;
\* at a positive offset they still are at most N items in two contiguous
\* timestamp-ordered halves on the two sides of the anchor.
C16_AroundSymmetryAtOffset0 ==
    AroundRequest => AroundHalves /\ (req.offset = 0 => AroundClosest)

\* an 'around' page at offset 0 with a record in each half, while a record
\* farther from the anchor is left out
C16_Witness ==
    /\ AroundRequest
    /\ req.offset = 0
    /\ NewerHalf # <<>> /\ OlderHalf # <<>>
    /\ Cardinality(StoreRecords(req.source)) > Len(resp)

\* the candidates of the result res of a task are in the store: its posts
\* and their media, its works and their pages, and its unclassified files
\* unless reconciliation took them out
Committed(res) ==
    /\ \A i \in DOMAIN res.t_buf :
          /\ \E r \in tweets : r.id = res.t_buf[i].row.id
          /\ \A j \in DOMAIN res.t_buf[i].media :
                res.t_buf[i].media[j] \in BagToSet(tweet_media)
    /\ \A i \in DOMAIN res.p_buf :
          /\ \E r \in pixiv_works : r.id = res.p_buf[i].wid
          /\ \A j \in DOMAIN res.p_buf[i].pages :
                res.p_buf[i].pages[j][2] \in FilePaths(pixiv_pages)
    /\ \A i \in DOMAIN res.o_buf :
          \/ \E r \in other_works : r.id = res.o_buf[i].id
          \/ Reconcilable(res.o_buf[i], pixiv_pages, tweet_media)

\* the step is the failure of a worker task of thread t
WorkerFailed(t) == th[t].pc = "pool" /\ th'[t].failed # th[t].failed

\* C20: the failure of a worker task aggregates nothing of that task and
\* does not abort the pass (the buffers, the counters, the store and the
\* status message stay as they were and the pass goes on with the tasks
\* left); when the pass has reconciled and set the completion status, the
\* candidates of every task that did not fail are in the store.
C20_TaskIsolation ==
    /\ [][\A t \in Threads : WorkerFailed(t) =>
            /\ UNCHANGED <<store, scan_status_msg, is_scanning>>
            /\ th'[t] = [th[t] EXCEPT !.tasks = th'[t].tasks, !.failed = th'[t].failed,
                                      !.clean = FALSE]
            /\ th'[t].tasks \subseteq th[t].tasks]_vars
    /\ [](\A t \in Threads :
            (th[t].pc = "finally" /\ th[t].ok) =>
                /\ scan_status_msg = "done"
                /\ \A task \in th[t].walked \ th[t].failed :
                      Committed(ScanWorker(task[1], task[2], th[t].ex_pixiv,
                                           th[t].ex_tweets, th[t].ex_others)))

\* a pass in which the worker of the artwork folder failed has reconciled
\* with the completion status, and the post of another folder is in the store
C20_Witness ==
    \E t \in Threads :
        /\ th[t].pc = "finally" /\ th[t].ok
        /\ scan_status_msg = "done"
        /\ \E task \in th[t].failed : task[1] = DirA
        /\ \E task \in th[t].walked \ th[t].failed : task[1] = DirM
        /\ \E r \in tweets : r.id = <<T2>>
        /\ ~\E r \in pixiv_works : r.folder_name = "artist_123" /\ r.title = "111111_p2.mp4"

\* lines 265-287 with the futures completing in the order of the walk: the
\* write buffers after the results of the tasks of the directories
\* AllDirs[1..i] have been aggregated, on a store that held no row at the
\* snapshot
RECURSIVE RefBuffers(_, _)
RefBuffers(tasks, i) ==
    IF i = 0 THEN IdleThread
    ELSE LET l == RefBuffers(tasks, i - 1)
             ts == {k \in tasks : k[1] = AllDirs[i]}
         IN  IF ts = {} THEN l
             ELSE LET task == CHOOSE k \in ts : TRUE
                  IN  Aggregate(l, ScanWorker(task[1], task[2], {}, {}, {}))

\* lines 289-330 on an empty store: the five tables after the buffers of the
\* walk-order pass have been written and the reconciliation has run
RefStore(tasks) ==
    LET l == RefBuffers(tasks, Len(AllDirs))
        pw == InsertOrIgnore({}, l.b_pix_w)
        pp == InsertAll(EmptyBag, l.b_pix_p)
        tw == InsertOrIgnore({}, l.b_tweets)
        tm == InsertAll(EmptyBag, l.b_tweet_m)
        ow == InsertOrIgnore({}, l.b_others)
    IN  <<pw, pp, tw, tm, {r \in ow : ~Reconcilable(r, pp, tm)}>>

\* the rows of a table with the liked flag, which a like request may set
\* while the pass runs, put back to its inserted value
Unliked(table) == {[r EXCEPT !.is_liked = 0] : r \in table}

\* a pass over a store without rows has finished with no task, flush or
\* statement having raised
CompletePassFromEmpty(t) ==
    /\ Finished(t) /\ th[t].clean /\ th[t].failed = {}
    /\ th[t].ex_pixiv = {} /\ th[t].ex_tweets = {} /\ th[t].ex_others = {}

\* C23 (as claimed): completion-order independence.  For a fixed tree and a
\* fixed starting store (here the empty one), the five tables at the end of
\* a successful pass are the same for every order in which the worker tasks
\* complete: they are the tables the pass leaves when the tasks complete in
\* the order of the walk.
C23_OrderIndependent ==
    \A t \in Threads :
        CompletePassFromEmpty(t) =>
            <<Unliked(pixiv_works), pixiv_pages, Unliked(tweets), tweet_media,
              Unliked(other_works)>> = RefStore(th[t].walked)

\* the records of the included families that match request r in direction
\* direction (the requests of this specification filter by the anchor only)
Matching(r, direction) ==
    IF r.target_date = NoTarget THEN StoreRecords(r.source)
    ELSE OnSide(r, ClaimedOp(r.sort, direction))

\* the timestamps of the records S as one globally sorted list
RECURSIVE SortedTimes(_, _)
SortedTimes(S, order_s) ==
    IF S = {} THEN <<>>
    ELSE LET x == CHOOSE x \in S : \A y \in S :
                    IF order_s = "DESC" THEN y[3] <= x[3] ELSE y[3] >= x[3]
         IN  <<x[3]>> \o SortedTimes(S \ {x}, order_s)

\* C21: the list an 'older' or 'newer' request fetches (at most offset +
\* page size rows per family, concatenated, re-sorted, sliced) has the
\* timestamps of the slice [offset, offset + page size) of the one sorted
\* list of all matching records of the included families.
C21_MergeEquivalence ==
    (req # NoReq /\ req.direction \in {"older", "newer"}) =>
        [i \in DOMAIN Fetched |-> Fetched[i].timestamp]
            = Slice(SortedTimes(Matching(req, req.direction),
                                ClaimedOrder(req.sort, req.direction)),
                    req.offset, req.offset + req.limit)

\* a request over all families in which the per-family limit cuts the post
\* family (it has more matching rows than offset + page size) while another
\* family has a matching record, and a page came back
C21_Witness ==
    /\ req # NoReq
    /\ req.direction \in {"older", "newer"}
    /\ req.source = "all"
    /\ resp # <<>>
    /\ Cardinality({x \in Matching(req, req.direction) : x[1] = "tweet"})
          > req.offset + req.limit
    /\ \E x \in Matching(req, req.direction) : x[1] # "tweet"

(***************************************************************************)
(* A client that pages down: a first 'older' request without anchor, then  *)
(* 'older' requests anchored at the timestamp of the last item received.   *)
(***************************************************************************)
PagingInit ==
    /\ \E m \in [StreamItems -> 0..MaxTs] :
          /\ pixiv_works = StreamStore(m).pixiv_works
          /\ pixiv_pages = StreamStore(m).pixiv_pages
          /\ tweets = StreamStore(m).tweets
          /\ tweet_media = StreamStore(m).tweet_media
          /\ other_works = StreamStore(m).other_works
    /\ tree = InitialTree
    /\ target_dir = R1
    /\ is_scanning = FALSE
    /\ scan_status_msg = "done"
    /\ th = [t \in 1..1 |-> IdleThread]
    /\ lastPass = <<>>
    /\ req = NoReq
    /\ resp = <<>>
    /\ prev = <<>>
    /\ call = NoCall
    /\ ret = NoCall
    /\ got = {}

\* the first page: direction 'older', offset 0, page size n, no anchor
FirstPage(n, sort) ==
    /\ req = NoReq
    /\ req' = [DefaultRequest EXCEPT !.limit = n, !.sort = sort]
    /\ resp' \in GetStream(req')
    /\ got' = Records(resp')
    /\ UNCHANGED <<store, tree, target_dir, is_scanning, scan_status_msg, th, lastPass,
                   prev, call, ret>>

\* the next page: the same request anchored at the timestamp of the last
\* item of the page at hand
OlderFromLast ==
    /\ req # NoReq
    /\ resp # <<>>
    /\ req' = [req EXCEPT !.target_date = resp[Len(resp)].timestamp]
    /\ resp' \in GetStream(req')
    /\ got' = got \cup Records(resp')
    /\ UNCHANGED <<store, tree, target_dir, is_scanning, scan_status_msg, th, lastPass,
                   prev, call, ret>>

PagingNext ==
    \/ /\ req = NoReq
       /\ \E n \in 1..MaxLimit, sort \in {"desc", "asc"} : FirstPage(n, sort)
    \/ OlderFromLast

\* the client keeps asking for the next page
PagingSpec ==
    /\ PagingInit
    /\ [][PagingNext]_vars
    /\ WF_vars(OlderFromLast)
    /\ WF_vars(\E n \in 1..MaxLimit, sort \in {"desc", "asc"} : FirstPage(n, sort))

\* the client has received every record of the store
AllReceived ==
    /\ req # NoReq
    /\ {<<x[1], x[2]>> : x \in StoreRecords("all")} \subseteq got

\* C22 (as claimed): the paging client eventually receives every record.
C22_PagingProgress ==
    (req # NoReq) ~> AllReceived

(***************************************************************************)
(* The stream engine under the content filters: one work, one post and     *)
(* one unclassified file, each with every mix of media kinds a scan can    *)
(* store, and one request of the client.                                   *)
(***************************************************************************)
\* the media kinds of a record: none at all, or the kinds it has
WorkKinds == {"absent", "image", "video", "both"}
PostKinds == {"absent", "none", "image", "video", "both"}
FileKinds == {"absent", "image", "video"}

\* the media types of a record of kind k
TypesOf(k) ==
    CASE k = "image" -> {"image"}
      [] k = "video" -> {"video"}
      [] k = "both" -> {"image", "video"}
      [] OTHER -> {}

\* the file of a record's medium of a given type
MediumFile(name, type) == IF type = "video" THEN name \o "_1.mp4" ELSE name \o "_0.jpg"

\* the store holding a work of kind kw (modified at 1), a post of kind kp
\* (modified at 2) and an unclassified file of kind ko (modified at 3)
FilterStore(kw, kp, ko) ==
    [pixiv_works |->
        {[id |-> <<"900001">>, title |-> "900001_0.jpg", author |-> "artist",
          timestamp |-> 1, total_pages |-> Cardinality(TypesOf(kw)), is_liked |-> 0,
          folder_name |-> "artist_123", file_mtime |-> 1] : x \in {kw} \ {"absent"}},
     pixiv_pages |->
        SetToBag({[work_id |-> <<"900001">>,
                   page_num |-> IF ty = "video" /\ kw = "both" THEN 1 ELSE 0,
                   file_path |-> Path(DirA, MediumFile("900001", ty)),
                   media_type |-> ty] : ty \in TypesOf(kw)}),
     tweets |->
        {[id |-> <<"ta">>, timestamp |-> 1700, user_name |-> "alice", text |-> "hello",
          json_path |-> Path(DirM, "ta.json"),
          tweet_url |-> <<"https://x.com/alice/status/1">>,
          avatar_url |-> "", folder_name |-> "misc", file_mtime |-> 2,
          is_liked |-> 0] : x \in {kp} \ {"absent"}},
     tweet_media |->
        SetToBag({[tweet_id |-> <<"ta">>, file_path |-> Path(DirM, MediumFile("x_ta", ty)),
                   media_type |-> ty] : ty \in TypesOf(kp)}),
     other_works |->
        {[id |-> FileId(Path(DirM, MediumFile("x", ty))),
          filename |-> MediumFile("x", ty), folder_name |-> "misc",
          file_path |-> Path(DirM, MediumFile("x", ty)), media_type |-> ty,
          file_mtime |-> 3, is_liked |-> 0] : ty \in TypesOf(ko)}]

\* the requests of the client: every content filter but 'liked', every
\* family filter, with and without text query, folder filter and anchor
FilterRequests ==
    [limit : {1, MaxLimit}, offset : {0, MaxOffset},
     source : {"all", "pixiv", "tweets", "others"}, q : {"", "hel"},
     sort : {"desc", "asc"}, folder : {"", "misc"},
     filter_type : {"all", "video", "image", "text"},
     target_date : {NoTarget, 2},
     direction : {"older", "newer", "around"}]

FilterInit ==
    /\ \E kw \in WorkKinds, kp \in PostKinds, ko \in FileKinds :
          /\ pixiv_works = FilterStore(kw, kp, ko).pixiv_works
          /\ pixiv_pages = FilterStore(kw, kp, ko).pixiv_pages
          /\ tweets = FilterStore(kw, kp, ko).tweets
          /\ tweet_media = FilterStore(kw, kp, ko).tweet_media
          /\ other_works = FilterStore(kw, kp, ko).other_works
    /\ tree = InitialTree
    /\ target_dir = R1
    /\ is_scanning = FALSE
    /\ scan_status_msg = "done"
    /\ th = [t \in 1..1 |-> IdleThread]
    /\ lastPass = <<>>
    /\ req = NoReq
    /\ resp = <<>>
    /\ prev = <<>>
    /\ call = NoCall
    /\ ret = NoCall
    /\ got = {}

\* the client of this session sends one request
FilterNext ==
    /\ req = NoReq
    /\ \E r \in FilterRequests : Request(r)

FilterSpec == FilterInit /\ [][FilterNext]_vars

\* the media types of a returned record
MediaTypes(rec) == {m.type : m \in rec.media}

\* C13: a request with content filter 'video' returns only records that have
\* a video medium, and a request with content filter 'text' returns only
\* posts, and only posts without media.
C13_FilterExact ==
    req # NoReq =>
        /\ req.filter_type = "video" =>
              \A i \in DOMAIN resp : "video" \in MediaTypes(resp[i])
        /\ req.filter_type = "text" =>
              \A i \in DOMAIN resp : resp[i].type = "tweet" /\ resp[i].media = {}

\* a 'video' request has returned a record while the store holds a record
\* without video that the request leaves out
C13_Witness ==
    /\ req # NoReq
    /\ req.filter_type = "video"
    /\ req.source = "all"
    /\ resp # <<>>
    /\ \E t \in tweets :
          /\ <<"tweet", t.id>> \notin Records(resp)
          /\ \E m \in BagToSet(tweet_media) : m.tweet_id = t.id
          /\ \A m \in BagToSet(tweet_media) : m.tweet_id = t.id => m.media_type = "image"

\* a request whose page holds every record it selects: no anchor, no offset,
\* a page as large as the store
WholePage(r) ==
    /\ r.target_date = NoTarget
    /\ r.offset = 0
    /\ r.limit >= Cardinality(pixiv_works) + Cardinality(tweets) + Cardinality(other_works)

\* the media types of the pages of work w
PageTypes(w) == {p.media_type : p \in {x \in BagToSet(pixiv_pages) : x.work_id = w.id}}

\* the request asks for the works of the store with content filter 'image'
\* and nothing else narrows it
ImageWorks ==
    /\ req # NoReq
    /\ req.filter_type = "image"
    /\ req.source \in {"all", "pixiv"}
    /\ req.q = "" /\ req.folder = ""
    /\ WholePage(req)

\* C14 (as claimed): with content filter 'image' a work is selected exactly
\* when it has at least one image page.
C14_ImageWorkHasImage ==
    ImageWorks =>
        \A w \in pixiv_works :
            <<"pixiv", w.id>> \in Records(resp) <=> "image" \in PageTypes(w)

\* C14 (amended): with content filter 'image' a work is selected exactly
\* when it has no video page.
C14_ImageWorkHasNoVideo ==
    ImageWorks =>
        \A w \in pixiv_works :
            <<"pixiv", w.id>> \in Records(resp) <=> "video" \notin PageTypes(w)

\* an 'image' request has left out a work that has an image page and a video
\* page
C14_Witness ==
    /\ ImageWorks
    /\ \E w \in pixiv_works :
          /\ PageTypes(w) = {"image", "video"}
          /\ <<"pixiv", w.id>> \notin Records(resp)

\* the posts the text query and the folder filter of r let through
Narrowed(r) ==
    {t \in tweets : /\ (r.folder # "" /\ r.folder # "ALL") => t.folder_name = r.folder
                    /\ r.q # "" => TextMatch("tweets", t, r.q)}

\* C17: content filter 'text' over all families raises nothing (every such
\* request has a page), the work and unclassified families contribute no
\* record to it, and the posts without media are still returned.
C17_FailClosed ==
    /\ req = NoReq =>
          \A r \in FilterRequests : r.filter_type = "text" => GetStream(r) # {}
    /\ (req # NoReq /\ req.filter_type = "text" /\ req.source = "all") =>
          /\ \A i \in DOMAIN resp : resp[i].type \notin {"pixiv", "other"}
          /\ WholePage(req) =>
                \A t \in Narrowed(req) :
                    (~\E m \in BagToSet(tweet_media) : m.tweet_id = t.id)
                        => <<"tweet", t.id>> \in Records(resp)

\* a 'text' request over all families has returned the post of a store that
\* also holds a work and an unclassified file
C17_Witness ==
    /\ req # NoReq
    /\ req.filter_type = "text"
    /\ req.source = "all"
    /\ pixiv_works # {} /\ other_works # {}
    /\ \E i \in DOMAIN resp : resp[i].type = "tweet"

(***************************************************************************)
(* scan_worker on its own: one call on a directory of the tree, with any   *)
(* selection of the directory's files and any snapshot of known ids.       *)
(***************************************************************************)
\* the file names of directory d, in listing order
AllFiles(d) ==
    LET ps == SelectSeq(Universe, LAMBDA p : p[1] = d)
    IN  [i \in DOMAIN ps |-> ps[i][2]]

\* the ids a snapshot of the store can hold for the files of directory d
KnownWorks(d) ==
    {ResolveWid(PixivFolderMatch(Basename(d)), f) :
        f \in {x \in Range(AllFiles(d)) : IsMedia(x) /\ ~IsJson(x)}}
KnownPosts == {<<T1>>, <<T2>>}
KnownFiles(d) ==
    {FileId(Path(d, f)) : f \in {x \in Range(AllFiles(d)) : IsMedia(x) /\ ~IsJson(x)}}

WorkerInit ==
    /\ pixiv_works = {} /\ tweets = {} /\ other_works = {}
    /\ pixiv_pages = EmptyBag /\ tweet_media = EmptyBag
    /\ tree = Range(Universe)
    /\ target_dir = R1
    /\ is_scanning = FALSE
    /\ scan_status_msg = ""
    /\ th = [t \in 1..1 |-> IdleThread]
    /\ lastPass = <<>>
    /\ req = NoReq
    /\ resp = <<>>
    /\ prev = <<>>
    /\ call = NoCall
    /\ ret = NoCall
    /\ got = {}

\* scan_worker((root, files, existing_pixiv, existing_tweets, existing_others))
WorkerCall(root, files, existing_pixiv, existing_tweets, existing_others) ==
    /\ call' = [root |-> root, files |-> files, existing_pixiv |-> existing_pixiv,
                existing_tweets |-> existing_tweets, existing_others |-> existing_others]
    /\ ret' = ScanWorker(root, files, existing_pixiv, existing_tweets, existing_others)
    /\ UNCHANGED <<store, tree, target_dir, is_scanning, scan_status_msg, th, lastPass,
                   req, resp, prev, got>>

WorkerNext ==
    /\ call = NoCall
    /\ \E d \in Range(AllDirs) :
         \E S \in SUBSET Range(AllFiles(d)), ep \in SUBSET KnownWorks(d),
            et \in SUBSET KnownPosts, eo \in SUBSET KnownFiles(d) :
               WorkerCall(d, SelectSeq(AllFiles(d), LAMBDA f : f \in S), ep, et, eo)

WorkerSpec == WorkerInit /\ [][WorkerNext]_vars

\* the media files among the files handed to the call
CallMedia == {f \in Range(call.files) : IsMedia(f) /\ ~IsJson(f)}

\* file f of the call's directory is in the media list of a Post candidate,
\* in the page list of an ArtworkWork candidate, is an UnclassifiedMedia
\* candidate
InPost(f) ==
    \E i \in DOMAIN ret.t_buf : \E j \in DOMAIN ret.t_buf[i].media :
        ret.t_buf[i].media[j].file_path = Path(call.root, f)
InWork(f) ==
    \E i \in DOMAIN ret.p_buf : \E j \in DOMAIN ret.p_buf[i].pages :
        ret.p_buf[i].pages[j][2] = Path(call.root, f)
InOther(f) ==
    \E i \in DOMAIN ret.o_buf : ret.o_buf[i].file_path = Path(call.root, f)

\* the post ids of the Post candidates of the result
NewPostIds == {ret.t_buf[i].row.id : i \in DOMAIN ret.t_buf}

\* C18: in the result of a scan_worker call every media file is claimed by
\* at most one family; a file that matches the id of a Post candidate is in
\* that Post's media list (posts before artworks), in an artwork folder no
\* file is left to the unclassified fallback (artworks before unclassified),
\* and the call leaves the store as it was.
C18_Precedence ==
    /\ [](ret # NoCall =>
            \A f \in CallMedia :
                /\ ~(InPost(f) /\ InWork(f))
                /\ ~(InPost(f) /\ InOther(f))
                /\ ~(InWork(f) /\ InOther(f))
                /\ (~HiddenFile(f) /\ <<TweetIdOf(f)>> \in NewPostIds) => InPost(f)
                /\ PixivFolderMatch(Basename(call.root)) # NoId => ~InOther(f))
    /\ [][call' # call => UNCHANGED store]_vars

\* a call on the artwork folder has made a Post with its medium, a work with
\* its pages and nothing unclassified
C18_Witness ==
    /\ ret # NoCall
    /\ call.root = DirA
    /\ \E f \in CallMedia : InPost(f)
    /\ \E f \in CallMedia : InWork(f)
    /\ ret.o_buf = <<>>

\* the sidecars of the call whose post id is in the existing-Post snapshot
KnownSidecars ==
    {jf \in Range(call.files) :
        /\ ~HiddenFile(jf) /\ IsJson(jf)
        /\ JsonTid(jf) # NoId
        /\ <<JsonTid(jf)>> \in call.existing_tweets}

\* C19: for a sidecar whose post id is in the existing-Post snapshot the
\* result holds no Post candidate of that id, and no media file matching
\* that id is a page of a new work or an UnclassifiedMedia candidate.
C19_NoLeak ==
    ret # NoCall =>
        \A jf \in KnownSidecars :
            /\ <<JsonTid(jf)>> \notin NewPostIds
            /\ \A f \in CallMedia :
                  (~HiddenFile(f) /\ TweetIdOf(f) = JsonTid(jf))
                      => ~InWork(f) /\ ~InOther(f) /\ ~InPost(f)

\* a call on the artwork folder with a known sidecar and a media file of its
\* post id, whose snapshots know neither a work nor a file
C19_Witness ==
    /\ ret # NoCall
    /\ call.existing_pixiv = {} /\ call.existing_others = {}
    /\ \E jf \in KnownSidecars : \E f \in CallMedia : TweetIdOf(f) = JsonTid(jf)
    /\ call.root = DirA

(***************************************************************************)
(* The scan triggers under fair scheduling of the run_scan threads.        *)
(***************************************************************************)
\* a started thread reaches its entry check, and the threads keep running
FairTriggerSpec ==
    /\ ConcSpec
    /\ WF_vars(\E t \in Threads : Enter(t))
    /\ ([]<>(~ScanEnabled) \/ []<><<\E t \in Threads : ScanStep(t)>>_vars)

\* a scan pass over root has been started: a run_scan call for it is past
\* the entry check
PassStarted(root) ==
    \E t \in Threads : th[t].target = root /\ th[t].pc \notin {"none", "entry"}

\* C11 (as claimed): once an accepted set_path request has made R2 the root
\* ingestion directory (the server never starts with it), a scan pass over
\* R2 is eventually started.
C11_NewRootScanned ==
    (target_dir = R2) ~> PassStarted(R2)

=============================================================================
